---- MODULE Spec2Model ----
(***************************************************************************)
(* Model of the retrieval pipeline of LOCALRAG(Task1).ipynb:               *)
(*   extract_text_from_pdf, extract_tables_from_pdf, chunk_and_embed_text, *)
(*   create_faiss_index, search_query.                                     *)
(* A text is a sequence of one-character strings.  Positions handed out by *)
(* the index are 0-based, as in the source; sequences here are 1-based, so *)
(* position p of the index is xb[p + 1].                                   *)
(***************************************************************************)
EXTENDS Integers, Sequences, FiniteSets, TLC

VARIABLES doc, text, textDone, tables, tablesDone, chunks, embeddings,
          index, tieBreak, query, I, result, outcome, pc, addCount, nsearch

vars == <<doc, text, textDone, tables, tablesDone, chunks, embeddings,
          index, tieBreak, query, I, result, outcome, pc, addCount, nsearch>>

\* ---------------------------------------------------------------- bounds
MaxPages == 4
MaxSearches == 2

\* ------------------------------------------------------------- constants
\* k=5 in index.search(query_embedding, k=5)
K == 5

NL == "\n"

\* The pages a document is made of: the text page.get_text() yields and the
\* tables page.extract_tables() yields (a table is named, its cells are not
\* looked at by the pipeline).
PageKinds ==
    { [text |-> <<"a", NL, NL>>,      tables |-> <<>>],
      [text |-> <<NL, NL, NL, NL>>,   tables |-> <<"T1">>],
      [text |-> <<"b", NL>>,          tables |-> <<"T2", "T3">>],
      [text |-> <<"a", "b">>,         tables |-> <<>>] }

Docs == UNION { [1..n -> PageKinds] : n \in 0..MaxPages }

Queries == { <<>>, <<"a">>, <<"a", "b">> }

\* The order in which the index returns vectors at equal distance is not
\* specified by the library; it is fixed for a given build.
TieBreaks == { "low", "high" }

\* ------------------------------------------------------------ extraction
\* text = ""; for page in doc: text += page.get_text()
RECURSIVE ConcatPagesSep(_, _)
ConcatPagesSep(pages, acc) ==
    IF pages = <<>> THEN acc
    ELSE ConcatPagesSep(Tail(pages),
                        (IF acc = <<>> THEN acc ELSE acc \o <<NL>>) \o Head(pages).text)

RECURSIVE ConcatPages(_, _)
ConcatPages(pages, acc) ==
    IF pages = <<>> THEN acc
    ELSE ConcatPages(Tail(pages), acc \o Head(pages).text)

\* tables = []; for page in pdf.pages: tables.append(page.extract_tables())
RECURSIVE AppendTables(_, _)
AppendTables(pages, acc) ==
    IF pages = <<>> THEN acc
    ELSE AppendTables(Tail(pages), Append(acc, Head(pages).tables))

\* -------------------------------------------------------------- chunking
\* The least i with s[i] = s[i+1] = "\n", or 0 when there is none.
FindSep(s) ==
    LET hits == { i \in 1..(Len(s) - 1) : s[i] = NL /\ s[i + 1] = NL }
    IN  IF hits = {} THEN 0 ELSE CHOOSE i \in hits : \A j \in hits : i <= j

RECURSIVE Split(_)
RECURSIVE SplitDropEmpty(_)
SplitDropEmpty(s) ==
    LET i == FindSep(s) IN
    IF i = 0 THEN (IF s = <<>> THEN <<>> ELSE <<s>>)
    ELSE (IF i = 1 THEN <<>> ELSE <<SubSeq(s, 1, i - 1)>>)
         \o SplitDropEmpty(SubSeq(s, i + 2, Len(s)))

\* text.split("\n\n")
Split(s) ==
    LET i == FindSep(s) IN
    IF i = 0 THEN <<s>>
    ELSE <<SubSeq(s, 1, i - 1)>> \o Split(SubSeq(s, i + 2, Len(s)))

\* ------------------------------------------------------------- embedding
Count(s, c) == Cardinality({ i \in 1..Len(s) : s[i] = c })

\* model.encode on one string: a fixed-length vector, a function of the text
\* alone.  The tokenizer drops whitespace, so texts that differ only in
\* newlines have the same vector.
Encode(s) == << Count(s, "a"), Count(s, "b") >>

\* model.encode(chunks): one vector per input string, in input order
EncodeAll(cs) == [ i \in 1..Len(cs) |-> Encode(cs[i]) ]

\* ----------------------------------------------------------------- index
\* Squared Euclidean distance, the metric of IndexFlatL2.
L2sqr(x, y) ==
    LET d1 == x[1] - y[1]
        d2 == x[2] - y[2]
    IN  d1 * d1 + d2 * d2

\* faiss.IndexFlatL2(embeddings.shape[1])
IndexFlatL2(d) == [ d |-> d, xb |-> <<>> ]

Reverse(s) == [ i \in 1..Len(s) |-> s[Len(s) + 1 - i] ]

IndexAddReversed(idx, vecs) == [ idx EXCEPT !.xb = @ \o Reverse(vecs) ]

\* index.add(embeddings): the vectors are appended in the order given
IndexAdd(idx, vecs) == [ idx EXCEPT !.xb = @ \o vecs ]

NTotal(idx) == Len(idx.xb)

TieFirst(p, q) == IF tieBreak = "low" THEN p < q ELSE p > q

FartherFirst(idx, x, p, q) ==
    LET dp == L2sqr(idx.xb[p + 1], x)
        dq == L2sqr(idx.xb[q + 1], x)
    IN  dp > dq \/ (dp = dq /\ TieFirst(p, q))

\* Whether position p is reported before position q for query vector x.
Closer(idx, x, p, q) ==
    LET dp == L2sqr(idx.xb[p + 1], x)
        dq == L2sqr(idx.xb[q + 1], x)
    IN  dp < dq \/ (dp = dq /\ TieFirst(p, q))

\* The k labels of index.search for one query vector: the nearest positions
\* in order; when fewer than k vectors are indexed the rest is filled with -1.
RECURSIVE Nearest(_, _, _, _)
Nearest(idx, x, rem, k) ==
    IF k = 0 THEN <<>>
    ELSE IF rem = {} THEN <<-1>> \o Nearest(idx, x, rem, k - 1)
    ELSE LET p == CHOOSE p \in rem : \A q \in rem \ {p} : Closer(idx, x, p, q)
         IN  <<p>> \o Nearest(idx, x, rem \ {p}, k - 1)

IndexSearch(idx, x, k) == Nearest(idx, x, 0..(NTotal(idx) - 1), k)

\* ------------------------------------------------------ Python subscript
\* chunks[i] on a Python list: a negative i counts from the end; outside
\* [-len, len) the subscript raises IndexError.
PyInRange(list, i) == -Len(list) <= i /\ i < Len(list)

PySubscript(list, i) == IF i < 0 THEN list[Len(list) + i + 1] ELSE list[i + 1]

\* ------------------------------------------------------------------ Init
Init ==
    /\ doc \in Docs
    /\ tieBreak \in TieBreaks
    /\ text = <<>> /\ textDone = FALSE
    /\ tables = <<>> /\ tablesDone = FALSE
    /\ chunks = <<>>
    /\ embeddings = <<>>
    /\ index = IndexFlatL2(0)
    /\ query = <<>>
    /\ I = <<>>
    /\ result = <<>>
    /\ outcome = "none"
    /\ pc = "extract"
    /\ addCount = 0
    /\ nsearch = 0

\* --------------------------------------------------------------- actions
extract_text_from_pdf ==
    /\ pc = "extract" /\ ~textDone
    /\ text' = ConcatPages(doc, <<>>)
    /\ textDone' = TRUE
    /\ UNCHANGED <<doc, tables, tablesDone, chunks, embeddings, index, tieBreak,
                   query, I, result, outcome, pc, addCount, nsearch>>

extract_tables_from_pdf ==
    /\ ~tablesDone
    /\ tables' = AppendTables(doc, <<>>)
    /\ tablesDone' = TRUE
    /\ UNCHANGED <<doc, text, textDone, chunks, embeddings, index, tieBreak,
                   query, I, result, outcome, pc, addCount, nsearch>>

chunk_and_embed_text ==
    /\ pc = "extract" /\ textDone
    /\ chunks' = Split(text)
    /\ embeddings' = EncodeAll(chunks')
    /\ pc' = "chunked"
    /\ UNCHANGED <<doc, text, textDone, tables, tablesDone, index, tieBreak,
                   query, I, result, outcome, addCount, nsearch>>

create_faiss_index ==
    /\ pc = "chunked"
    /\ index' = IndexAdd(IndexFlatL2(Len(embeddings[1])), embeddings)
    /\ addCount' = addCount + 1
    /\ pc' = "indexed"
    /\ UNCHANGED <<doc, text, textDone, tables, tablesDone, chunks, embeddings,
                   tieBreak, query, I, result, outcome, nsearch>>

search_query_adds(q) ==
    /\ pc \in {"indexed", "searched"}
    /\ nsearch < MaxSearches
    /\ LET qe == Encode(q)
           labels == IndexSearch(index, qe, K)
       IN  /\ query' = q
           /\ I' = labels
           /\ index' = IndexAdd(index, <<qe>>)
           /\ addCount' = addCount + 1
           /\ IF \A j \in 1..Len(labels) : PyInRange(chunks, labels[j])
              THEN /\ result' = [ j \in 1..Len(labels) |-> PySubscript(chunks, labels[j]) ]
                   /\ outcome' = "ok"
              ELSE /\ result' = <<>>
                   /\ outcome' = "IndexError"
    /\ pc' = "searched"
    /\ nsearch' = nsearch + 1
    /\ UNCHANGED <<doc, text, textDone, tables, tablesDone, chunks, embeddings,
                   tieBreak>>

search_query(q) ==
    /\ pc \in {"indexed", "searched"}
    /\ nsearch < MaxSearches
    /\ LET qe == Encode(q)
           labels == IndexSearch(index, qe, K)
       IN  /\ query' = q
           /\ I' = labels
           /\ IF \A j \in 1..Len(labels) : PyInRange(chunks, labels[j])
              THEN /\ result' = [ j \in 1..Len(labels) |-> PySubscript(chunks, labels[j]) ]
                   /\ outcome' = "ok"
              ELSE /\ result' = <<>>
                   /\ outcome' = "IndexError"
    /\ pc' = "searched"
    /\ nsearch' = nsearch + 1
    /\ UNCHANGED <<doc, text, textDone, tables, tablesDone, chunks, embeddings,
                   index, tieBreak, addCount>>

Next ==
    \/ extract_text_from_pdf
    \/ extract_tables_from_pdf
    \/ chunk_and_embed_text
    \/ create_faiss_index
    \/ \E q \in Queries : search_query(q)

Spec == Init /\ [][Next]_vars

\* ---------------------------------------------------------- definitions
\* used to state the properties

Min(a, b) == IF a < b THEN a ELSE b

\* Occurrences of the separator found scanning from position i to the right,
\* each occurrence consuming its two characters.
RECURSIVE CountSepFrom(_, _)
CountSepFrom(s, i) ==
    IF i + 1 > Len(s) THEN 0
    ELSE IF s[i] = NL /\ s[i + 1] = NL THEN 1 + CountSepFrom(s, i + 2)
    ELSE CountSepFrom(s, i + 1)

CountSep(s) == CountSepFrom(s, 1)

\* Length of the texts of the first n pages of the document.
RECURSIVE TextLenUpTo(_)
TextLenUpTo(n) == IF n = 0 THEN 0 ELSE TextLenUpTo(n - 1) + Len(doc[n].text)

QueryVec == Encode(query)

Chunked == pc \in {"chunked", "indexed", "searched"}
Indexed == pc \in {"indexed", "searched"}
Searched == pc = "searched"

\* Positions of the index whose vector equals the query's vector.
SameAsQuery == { p \in 0..(NTotal(index) - 1) : index.xb[p + 1] = QueryVec }

\* ---------------------------------------------------------------- claims

\* C1: for a corpus of n >= 1 indexed chunks search_query returns exactly
\* min(5, n) chunk strings; for n < 5 it returns n strings and not 5.
C1_ResultCount ==
    Searched => (outcome = "ok" /\ Len(result) = Min(K, NTotal(index)))

\* C2: every position search_query takes from the index's search result and
\* uses to subscript chunks lies in [0, len(chunks)); no padding position
\* (-1) is mapped to a chunk.
C2_PositionsInRange ==
    Searched => \A j \in 1..Len(I) : 0 <= I[j] /\ I[j] < Len(chunks)

\* C3: when fewer than k = 5 vectors are indexed, search_query ends in an
\* out-of-range error and returns no result list.
C3_FewerThanKErrors ==
    (Searched /\ NTotal(index) < K) => (outcome = "IndexError" /\ result = <<>>)

\* C4: a text with n non-overlapping occurrences of the separator (scanned
\* left to right) is split into exactly n + 1 chunks, empty chunks included.
C4_ChunkCount ==
    Chunked => Len(chunks) = CountSep(text) + 1

C4_Witness ==
    /\ Chunked
    /\ CountSep(text) >= 3
    /\ \E i \in 1..Len(chunks) : chunks[i] = <<>>
    /\ \E i \in 1..Len(chunks) : chunks[i] # <<>>
    /\ chunks[1] = <<>>
    /\ chunks[Len(chunks)] = <<>>

\* C5: self-retrieval.  For every chunk c whose embedding equals the query's
\* embedding, search_query returns a chunk at squared distance 0 from the
\* query, and returns c itself (its position, mapped to its text) whenever at
\* most 5 indexed chunks share that embedding.
C5_SelfRetrieval ==
    Searched =>
        \A c \in 1..Len(chunks) :
            (index.xb[c] = QueryVec) =>
                /\ outcome = "ok"
                /\ \E j \in 1..Len(result) : L2sqr(Encode(result[j]), QueryVec) = 0
                /\ (Cardinality(SameAsQuery) <= K) =>
                       \E j \in 1..Len(result) : I[j] = c - 1 /\ result[j] = chunks[c]

C5_Witness ==
    /\ Searched
    /\ Len(chunks) > K
    /\ Cardinality(SameAsQuery) >= 2
    /\ Cardinality(SameAsQuery) <= K
    /\ \E c \in 1..Len(chunks) : index.xb[c] # QueryVec
    /\ index.xb[Len(chunks)] = QueryVec

\* C6: for the empty document text the chunk sequence is [""] with one
\* embedding, the index is built on it, and search_query completes without
\* error and returns the single trivial chunk once (one result, not five).
C6_EmptyDocument ==
    (textDone /\ text = <<>>) =>
        /\ Chunked => (chunks = << <<>> >> /\ Len(embeddings) = 1)
        /\ Indexed => NTotal(index) = 1
        /\ Searched => (outcome = "ok" /\ result = << <<>> >>)

\* C7: search_query returns chunks in non-decreasing order of squared
\* Euclidean distance to the query embedding, so a query whose text equals an
\* indexed chunk has that chunk at the first result position.
C7_Ranked ==
    (Searched /\ outcome = "ok") =>
        /\ \A j \in 1..(Len(result) - 1) :
               L2sqr(Encode(result[j]), QueryVec) <= L2sqr(Encode(result[j + 1]), QueryVec)
        /\ (\E c \in 1..Len(chunks) : chunks[c] = query) => result[1] = query

\* C8: extract_text_from_pdf returns the page texts concatenated in page
\* order with nothing between them (empty for no pages), and
\* extract_tables_from_pdf returns one entry per page, in page order.
C8_Extraction ==
    /\ textDone =>
           /\ Len(text) = TextLenUpTo(Len(doc))
           /\ \A i \in 1..Len(doc) : \A j \in 1..Len(doc[i].text) :
                  text[TextLenUpTo(i - 1) + j] = doc[i].text[j]
    /\ tablesDone =>
           /\ Len(tables) = Len(doc)
           /\ \A i \in 1..Len(doc) : tables[i] = doc[i].tables

C8_Witness ==
    /\ textDone /\ tablesDone
    /\ Len(doc) >= 3
    /\ doc[1] # doc[2]
    /\ doc[2].tables # <<>>

\* C9: positional alignment.  There are len(chunks) embeddings and embedding
\* i is that of chunk i; the index stores vector i at position i; every
\* in-range position returned by the index in search_query is mapped to the
\* chunk whose embedding is the vector stored at that position.
C9_Alignment ==
    /\ Chunked =>
           /\ Len(embeddings) = Len(chunks)
           /\ \A i \in 1..Len(chunks) : embeddings[i] = Encode(chunks[i])
    /\ Indexed =>
           /\ NTotal(index) = Len(chunks)
           /\ \A i \in 1..Len(chunks) : index.xb[i] = embeddings[i]
    /\ (Searched /\ outcome = "ok") =>
           \A j \in 1..Len(I) :
               (0 <= I[j] /\ I[j] < Len(chunks)) =>
                   /\ result[j] = chunks[I[j] + 1]
                   /\ index.xb[I[j] + 1] = Encode(result[j])

C9_Witness ==
    /\ Searched /\ outcome = "ok"
    /\ Len(chunks) >= 3
    /\ embeddings[1] # embeddings[Len(chunks)]
    /\ I[1] >= 1
    /\ \E i \in 1..Len(chunks) : chunks[i] = <<>>

\* C10: the index is mutated exactly once, by the bulk add of
\* create_faiss_index; search_query leaves the index, the chunks and the
\* embeddings unchanged, and repeating a query returns the same result list.
C10_Frame ==
    [][ /\ Indexed => (index' = index /\ chunks' = chunks /\ embeddings' = embeddings)
        /\ (index' # index) => (pc = "chunked" /\ pc' = "indexed" /\ addCount' = addCount + 1)
        /\ addCount' <= 1
        /\ (pc' \in {"indexed", "searched"}) => addCount' = 1
        /\ (Searched /\ nsearch' = nsearch + 1 /\ query' = query) =>
               (result' = result /\ I' = I /\ outcome' = outcome) ]_vars

C10_Witness ==
    /\ Searched
    /\ nsearch >= 2
    /\ addCount = 1
    /\ Len(chunks) >= 2
    /\ NTotal(index) = Len(chunks)

====
